---- MODULE Spec2Model ----
(***************************************************************************)
(* A model of the smallest-enclosing-h3 crate: the builder                 *)
(* (SmallestEnclosingH3Builder), the region it builds                      *)
(* (SmallestEnclosingH3) and the region's three queries, hexagons(),       *)
(* generate_circle_coordinates() and to_geojson().                         *)
(*                                                                         *)
(* Numbers.  An f64 is a record [cls, v]: a finite value (an integer v),   *)
(* NaN or +infinity, with the IEEE comparisons (every comparison with NaN  *)
(* is false, NaN is not equal to itself).  radius_meters is in metres.     *)
(* Coordinates are in units of 1e-7 degree.  The centres of the model lie  *)
(* within a few hundred metres of latitude 0, longitude 0, where the       *)
(* spherical formula of destination_point is, to the model's unit, its     *)
(* first-order expansion: lat2 = lat1 + delta*cos(bearing),                *)
(* lon2 = lon1 + delta*sin(bearing), delta the angular distance in         *)
(* degrees; it is computed to nine digits, so that for the finite radii of *)
(* the model (whole metres, up to 125 m) the point is the code's point     *)
(* rounded to the unit.  A non-finite distance makes both coordinates NaN, *)
(* as cos and sin of an infinity or a NaN are NaN.                         *)
(*                                                                         *)
(* The grid index (h3o) is an external collaborator.  It is modelled as a  *)
(* planar hexagonal tiling in axial coordinates <<q, r>>, with the centre  *)
(* spacing of each of the sixteen H3 resolutions, neighbours at bearings   *)
(* 0, 60, ... degrees, and one pentagon, at which grid_distance and        *)
(* grid_ring_fast fail the way the h3o interface says they may.            *)
(***************************************************************************)
EXTENDS Integers, Sequences, FiniteSets, TLC

VARIABLES builder, region, last

vars == <<builder, region, last>>

-----------------------------------------------------------------------------
(* f64 *)

Fin(v) == [cls |-> "finite", v |-> v]

NaN == [cls |-> "nan", v |-> 0]

PosInf == [cls |-> "inf", v |-> 0]

IsFinite(a) == a.cls = "finite"

\* a <= 0.0
FLe0(a) == a.cls = "finite" /\ a.v <= 0

\* a > 0.0
FGt0(a) == (a.cls = "finite" /\ a.v > 0) \/ a.cls = "inf"

\* a == b
FEq(a, b) == a.cls # "nan" /\ b.cls # "nan" /\ a = b

\* Vec<f64> == Vec<f64>, for two coordinate pairs
CoordEq(p, q) == FEq(p[1], q[1]) /\ FEq(p[2], q[2])

Abs(n) == IF n < 0 THEN -n ELSE n

Max(a, b) == IF a >= b THEN a ELSE b

\* the integer nearest to a / b, for b > 0
RoundDiv(a, b) == (2 * a + b) \div (2 * b)

-----------------------------------------------------------------------------
(* Bounds and constants *)

\* the finite radii of the model are RadiusStep * i metres, i in -1 .. MaxRadiusSteps
RadiusStep == 25

MaxRadiusSteps == 3

EARTH_RADIUS == 6371000

num_points == 64

U8Max == 255

MaxResolution == 15

Radii == {NaN, PosInf} \cup {Fin(RadiusStep * i) : i \in -1 .. MaxRadiusSteps}

Resolutions == 0 .. MaxResolution

\* the one pentagon of the modelled patch of the grid: the cell that holds this
\* point is a pentagon at every resolution
PentagonLatLng == [lat |-> 2200, lng |-> 3811]

\* LatLng values (validated, finite): latitude 0 and longitude 0; a point one
\* resolution-12 cell from the pentagon; a point a kilometre south of it, which
\* at resolution 9 lies 6.5 m north of the southern edge of its cell; and the
\* pentagon's own position
Centers ==
    { [lat |-> 0, lng |-> 0],
      [lat |-> 2934, lng |-> 2541],
      [lat |-> -94486, lng |-> 0],
      PentagonLatLng }

-----------------------------------------------------------------------------
(* Geodesy: destination_point *)

\* 10^9 * cos(j * 360/64 degrees), j in 0 .. 16
CosTable == <<1000000000, 995184727, 980785280, 956940336, 923879533, 881921264,
              831469612, 773010453, 707106781, 634393284, 555570233, 471396737,
              382683432, 290284677, 195090322, 98017140, 0>>

\* 10^9 * cos(bearing), the bearing in units of 360/num_points degrees
CosNano(bearing) ==
    LET j == bearing % 64
    IN  IF j <= 16 THEN CosTable[j + 1]
        ELSE IF j <= 32 THEN -CosTable[32 - j + 1]
        ELSE IF j <= 48 THEN -CosTable[j - 32 + 1]
        ELSE CosTable[64 - j + 1]

\* 10^9 * sin(bearing) = 10^9 * cos(bearing - 90 degrees)
SinNano(bearing) == CosNano(bearing + 48)

\* distance / EARTH_RADIUS, converted to degrees (57.2957795 degrees to the
\* radian), in units of 1e-11 degree; distance in whole metres
AngularDistance(distance) ==
    LET km == EARTH_RADIUS \div 1000
    IN  distance * 10 * (572957795 \div km)
            + RoundDiv(distance * 10 * (572957795 % km), km)

\* delta * c / 10^13, rounded to the nearest integer: delta in 1e-11 degree
\* (below 2 * 10^9 / 10^3), c = 10^9 * a cosine or sine; the result is in units of
\* 1e-7 degree.  The product is taken in limbs of three digits to stay in 32 bits.
ScaleNano(delta, c) ==
    LET b == Abs(c)
        a2 == delta \div 1000000
        a1 == (delta \div 1000) % 1000
        a0 == delta % 1000
        b2 == b \div 1000000
        b1 == (b \div 1000) % 1000
        b0 == b % 1000
        hi == a2 * b2 * 1000 + a2 * b1 + a1 * b2
        lo == a2 * b0 + a1 * b1 + a0 * b2 + RoundDiv(a1 * b0 + a0 * b1, 1000)
        r == RoundDiv(hi + RoundDiv(lo, 1000), 10000)
    IN  IF c < 0 THEN -r ELSE r

\* destination_point(start, distance, bearing): start a pair <<x, y>> of finite
\* f64 (x the longitude, y the latitude), distance an f64 in metres, bearing in
\* units of 360/num_points degrees.  The Result is Ok in every case; this is
\* its point, rounded to 1e-7 degree.
DestinationPoint(start, distance, bearing) ==
    IF ~IsFinite(distance)
    THEN <<NaN, NaN>>
    ELSE LET delta == AngularDistance(distance.v)
             lat2 == start[2].v + ScaleNano(delta, CosNano(bearing))
             lon2 == start[1].v + ScaleNano(delta, SinNano(bearing))
         IN  <<Fin(lon2), Fin(lat2)>>

\* point!(x: center.lng(), y: center.lat())
PointOf(latlng) == <<Fin(latlng.lng), Fin(latlng.lat)>>

-----------------------------------------------------------------------------
(* The grid index: h3o's LatLng::new, LatLng::to_cell, CellIndex::grid_distance,
   CellIndex::grid_ring_fast, CellIndex::boundary, Resolution::try_from *)

\* the spacing of neighbouring cell centres at resolutions 0 .. 15, in units of
\* 1e-7 degree (the average H3 edge length times the square root of 3)
HexSpacing ==
    <<172545067, 65215905, 24649296, 9316558, 3521328, 1330937, 503047,
      190134, 71864, 27162, 10266, 3880, 1467, 555, 210, 79>>

\* Resolution::try_from(u8): Ok for the levels 0 .. 15
ResolutionTryFrom(raw) ==
    IF raw <= MaxResolution
    THEN [ok |-> TRUE, resolution |-> raw]
    ELSE [ok |-> FALSE, resolution |-> 0]

\* LatLng::new(lat, lng): an error unless both coordinates are finite
LatLngNew(lat, lng) ==
    IF IsFinite(lat) /\ IsFinite(lng)
    THEN [ok |-> TRUE, latlng |-> [lat |-> lat.v, lng |-> lng.v]]
    ELSE [ok |-> FALSE, latlng |-> [lat |-> 0, lng |-> 0]]

\* the nearest cell to fractional axial coordinates (qf, rf)/1000
CubeRound(qf, rf) ==
    LET sf == -qf - rf
        q == RoundDiv(qf, 1000)
        r == RoundDiv(rf, 1000)
        s == RoundDiv(sf, 1000)
        dq == Abs(q * 1000 - qf)
        dr == Abs(r * 1000 - rf)
        ds == Abs(s * 1000 - sf)
    IN  IF dq > dr /\ dq > ds THEN <<-r - s, r>>
        ELSE IF dr > ds THEN <<q, -q - s>>
        ELSE <<q, r>>

\* LatLng::to_cell(resolution): the axis q points north (bearing 0), the axis r
\* to bearing 60 degrees; 0.57735 = 1/sqrt 3, 1.1547 = 2/sqrt 3
ToCell(latlng, resolution) ==
    LET d == HexSpacing[resolution + 1]
        qf == RoundDiv(latlng.lat * 1000 - RoundDiv(latlng.lng * 5774, 10), d)
        rf == RoundDiv(RoundDiv(latlng.lng * 11547, 10), d)
    IN  CubeRound(qf, rf)

IsPentagon(cell, resolution) == cell = ToCell(PentagonLatLng, resolution)

\* the number of cell-to-cell steps between two cells
HexDist(a, b) ==
    LET dq == a[1] - b[1]
        dr == a[2] - b[2]
    IN  Max(Max(Abs(dq), Abs(dr)), Abs(dq + dr))

\* CellIndex::grid_distance: an error (LocalIjError) when an end is a pentagon
GridDistance(a, b, resolution) ==
    IF IsPentagon(a, resolution) \/ IsPentagon(b, resolution)
    THEN [ok |-> FALSE, k |-> 0]
    ELSE [ok |-> TRUE, k |-> HexDist(a, b)]

Directions == << <<1, 0>>, <<1, -1>>, <<0, -1>>, <<-1, 0>>, <<-1, 1>>, <<0, 1>> >>

Step(cell, dir, n) ==
    <<cell[1] + n * Directions[dir + 1][1], cell[2] + n * Directions[dir + 1][2]>>

\* the p-th cell (p in 0 .. 6k-1) of the walk round the ring at distance k: it
\* starts k steps from the origin in direction 4 and takes k steps in each of
\* the directions 0 .. 5
RingCell(origin, k, p) ==
    LET side == p \div k
    IN  Step(Step(origin, (side + 4) % 6, k), side, p % k)

\* CellIndex::grid_ring_fast(k): the items of the iterator, each an Option (a
\* sequence of no or one cell).  k = 0 yields the origin.  A pentagon met on the
\* way out to the ring yields one None; a pentagon met on the ring yields None
\* in its place and ends the iterator.
GridRingFast(origin, k, resolution) ==
    IF k = 0 THEN << <<origin>> >>
    ELSE IF \E j \in 0 .. k - 1 : IsPentagon(Step(origin, 4, j), resolution)
    THEN << <<>> >>
    ELSE LET bad == {p \in 0 .. 6 * k - 1 : IsPentagon(RingCell(origin, k, p), resolution)}
             n == IF bad = {} THEN 6 * k
                  ELSE CHOOSE p \in bad : \A x \in bad : p <= x
         IN  [p \in 1 .. n |-> <<RingCell(origin, k, p - 1)>>]
             \o (IF bad = {} THEN <<>> ELSE << <<>> >>)

\* Iterator::flatten over Options: the Some items, in order
Flatten(items) ==
    LET some == SelectSeq(items, LAMBDA o : o # <<>>)
    IN  [i \in 1 .. Len(some) |-> some[i][1]]

\* d * m / 1000, without leaving 32 bits
MulMilli(d, m) == (d \div 1000) * m + RoundDiv((d % 1000) * m, 1000)

\* CellIndex::boundary(): the vertices of the cell, as LatLng; a hexagon has
\* six, at bearings 30, 90, ... degrees from its centre, a pentagon five
Boundary(cell, resolution) ==
    LET d == HexSpacing[resolution + 1]
        lat == d * cell[1] + RoundDiv(d * cell[2], 2)
        lng == MulMilli(d, 866) * cell[2]
        h == RoundDiv(d, 2)
        a == MulMilli(d, 289)
        b == MulMilli(d, 577)
        six == << [lat |-> lat + h, lng |-> lng + a], [lat |-> lat, lng |-> lng + b],
                  [lat |-> lat - h, lng |-> lng + a], [lat |-> lat - h, lng |-> lng - a],
                  [lat |-> lat, lng |-> lng - b], [lat |-> lat + h, lng |-> lng - a] >>
    IN  IF IsPentagon(cell, resolution) THEN SubSeq(six, 1, 5) ELSE six

-----------------------------------------------------------------------------
(* The crate: src/lib.rs and src/geojson_export.rs *)

Nothing == [tag |-> "none"]

Ok(value) == [ok |-> TRUE, err |-> "", value |-> value]

Err(kind) == [ok |-> FALSE, err |-> kind, value |-> Nothing]

\* SmallestEnclosingH3Builder::new
BuilderNew(center, radius_meters, resolution) ==
    [resolution |-> resolution, center |-> center, radius_meters |-> radius_meters]

\* BuilderResolution with the error of try_from dropped: an illegal level leaves
\* the builder as it was
BuilderResolutionUnchecked(self, raw) ==
    LET r == ResolutionTryFrom(raw)
    IN  IF ~r.ok THEN Ok(self)
        ELSE Ok([self EXCEPT !.resolution = r.resolution])

\* SmallestEnclosingH3Builder::resolution
BuilderResolution(self, raw) ==
    LET r == ResolutionTryFrom(raw)
    IN  IF ~r.ok THEN Err("InvalidResolution")
        ELSE Ok([self EXCEPT !.resolution = r.resolution])

\* SmallestEnclosingH3Builder::center
BuilderCenter(self, center) == [self EXCEPT !.center = center]

\* SmallestEnclosingH3Builder::radius_meters
BuilderRadiusMeters(self, radius) ==
    IF FLe0(radius) THEN Err("InvalidRadius")
    ELSE Ok([self EXCEPT !.radius_meters = radius])

\* SmallestEnclosingH3Builder::build
BuilderBuild(self) ==
    IF FLe0(self.radius_meters) THEN Err("InvalidRadius")
    ELSE Ok([resolution |-> self.resolution, center |-> self.center,
             radius_meters |-> self.radius_meters])

\* Hexagons with the grid distance error replaced by a distance of 0
\* (unwrap_or(0) in place of map_err and ?)
HexagonsUnwrapOr(self) ==
    LET center_cell == ToCell(self.center, self.resolution)
        edge_lat == DestinationPoint(PointOf(self.center), self.radius_meters, 0)
        edge == LatLngNew(edge_lat[2], edge_lat[1])
    IN  IF ~edge.ok
        THEN [ok |-> FALSE, err |-> "InvalidLatLng", cells |-> <<>>,
              calls |-> <<"to_cell", "destination_point", "LatLng::new">>]
        ELSE
        LET edge_cell == ToCell(edge.latlng, self.resolution)
            dist == GridDistance(center_cell, edge_cell, self.resolution)
            k == IF dist.ok THEN dist.k ELSE 0
        IN  [ok |-> TRUE, err |-> "",
             cells |-> Flatten(GridRingFast(center_cell, k, self.resolution)),
             calls |-> <<"to_cell", "destination_point", "LatLng::new",
                         "to_cell", "grid_distance", "grid_ring_fast">>]

\* SmallestEnclosingH3::hexagons.  calls lists the calls made to the grid index
\* and to destination_point, in order.
Hexagons(self) ==
    LET center_cell == ToCell(self.center, self.resolution)
        edge_lat == DestinationPoint(PointOf(self.center), self.radius_meters, 0)
        edge == LatLngNew(edge_lat[2], edge_lat[1])
    IN  IF ~edge.ok
        THEN [ok |-> FALSE, err |-> "InvalidLatLng", cells |-> <<>>,
              calls |-> <<"to_cell", "destination_point", "LatLng::new">>]
        ELSE
        LET edge_cell == ToCell(edge.latlng, self.resolution)
            dist == GridDistance(center_cell, edge_cell, self.resolution)
        IN  IF ~dist.ok
            THEN [ok |-> FALSE, err |-> "GridDistanceError", cells |-> <<>>,
                  calls |-> <<"to_cell", "destination_point", "LatLng::new",
                              "to_cell", "grid_distance">>]
            ELSE [ok |-> TRUE, err |-> "",
                  cells |-> Flatten(GridRingFast(center_cell, dist.k, self.resolution)),
                  calls |-> <<"to_cell", "destination_point", "LatLng::new",
                              "to_cell", "grid_distance", "grid_ring_fast">>]

\* GenerateCircleCoordinates with the loop over 0 .. num_points (exclusive)
GenerateCircleCoordinatesExclusive(self) ==
    LET center_point == PointOf(self.center)
        coordinates == [j \in 1 .. num_points |->
                          DestinationPoint(center_point, self.radius_meters, j - 1)]
    IN  IF coordinates # <<>> THEN Append(coordinates, coordinates[1])
        ELSE coordinates

\* SmallestEnclosingH3::generate_circle_coordinates: the loop over 0 ..= num_points,
\* then the push of the first pair.  The Result is Ok in every case; this is its
\* vector.
GenerateCircleCoordinates(self) ==
    LET center_point == PointOf(self.center)
        coordinates == [j \in 1 .. num_points + 1 |->
                          DestinationPoint(center_point, self.radius_meters, j - 1)]
    IN  IF coordinates # <<>> THEN Append(coordinates, coordinates[1])
        ELSE coordinates

\* create_circle_feature
CreateCircleFeature(coordinates, radius_meters) ==
    [type |-> "circle", radius_meters |-> radius_meters,
     coordinates |-> <<coordinates>>]

\* create_hex_feature
CreateHexFeature(hex_id, resolution) ==
    LET vertices == Boundary(hex_id, resolution)
        boundary == [i \in 1 .. Len(vertices) |->
                       <<Fin(vertices[i].lng), Fin(vertices[i].lat)>>]
        closed == IF boundary # <<>> THEN Append(boundary, boundary[1]) ELSE boundary
    IN  [type |-> "hexagon", hex_id |-> hex_id, coordinates |-> <<closed>>]

\* ToGeojson with the circle feature pushed before the hexagon features
ToGeojsonCircleFirst(self) ==
    LET hexes == Hexagons(self)
    IN  IF ~hexes.ok THEN [ok |-> FALSE, err |-> hexes.err, features |-> <<>>]
        ELSE [ok |-> TRUE, err |-> "",
              features |->
                  <<CreateCircleFeature(GenerateCircleCoordinates(self),
                                        self.radius_meters)>>
                  \o [i \in 1 .. Len(hexes.cells) |->
                         CreateHexFeature(hexes.cells[i], self.resolution)]]

\* SmallestEnclosingH3::to_geojson
ToGeojson(self) ==
    LET hexes == Hexagons(self)
    IN  IF ~hexes.ok THEN [ok |-> FALSE, err |-> hexes.err, features |-> <<>>]
        ELSE [ok |-> TRUE, err |-> "",
              features |->
                  Append([i \in 1 .. Len(hexes.cells) |->
                             CreateHexFeature(hexes.cells[i], self.resolution)],
                         CreateCircleFeature(GenerateCircleCoordinates(self),
                                             self.radius_meters))]

-----------------------------------------------------------------------------
(* The state machine: a builder made by new(), the setters called on it in any
   order, build(), and then the queries on the region.  A setter or build()
   takes the builder by value: after the call the old builder is gone, and an
   error leaves none.  last records the latest call: the operation, the object
   it was called on, its argument and its result. *)

Init ==
    \E c \in Centers, r \in Radii, res \in Resolutions :
        /\ builder = BuilderNew(c, r, res)
        /\ region = Nothing
        /\ last = [op |-> "new", self |-> Nothing, arg |-> Nothing, res |-> Nothing]

CallResolution ==
    /\ builder # Nothing
    /\ \E raw \in 0 .. U8Max :
        LET res == BuilderResolution(builder, raw)
        IN  /\ builder' = IF res.ok THEN res.value ELSE Nothing
            /\ last' = [op |-> "resolution", self |-> builder, arg |-> raw, res |-> res]
    /\ UNCHANGED region

CallCenter ==
    /\ builder # Nothing
    /\ \E c \in Centers :
        /\ builder' = BuilderCenter(builder, c)
        /\ last' = [op |-> "center", self |-> builder, arg |-> c, res |-> Nothing]
    /\ UNCHANGED region

CallRadiusMeters ==
    /\ builder # Nothing
    /\ \E r \in Radii :
        LET res == BuilderRadiusMeters(builder, r)
        IN  /\ builder' = IF res.ok THEN res.value ELSE Nothing
            /\ last' = [op |-> "radius_meters", self |-> builder, arg |-> r, res |-> res]
    /\ UNCHANGED region

CallBuild ==
    /\ builder # Nothing
    /\ LET res == BuilderBuild(builder)
       IN  /\ region' = IF res.ok THEN res.value ELSE Nothing
           /\ last' = [op |-> "build", self |-> builder, arg |-> Nothing, res |-> res]
    /\ builder' = Nothing

CallHexagons ==
    /\ region # Nothing
    /\ last' = [op |-> "hexagons", self |-> region, arg |-> Nothing,
                res |-> Hexagons(region)]
    /\ UNCHANGED <<builder, region>>

CallGenerateCircleCoordinates ==
    /\ region # Nothing
    /\ last' = [op |-> "generate_circle_coordinates", self |-> region, arg |-> Nothing,
                res |-> GenerateCircleCoordinates(region)]
    /\ UNCHANGED <<builder, region>>

CallToGeojson ==
    /\ region # Nothing
    /\ last' = [op |-> "to_geojson", self |-> region, arg |-> Nothing,
                res |-> ToGeojson(region)]
    /\ UNCHANGED <<builder, region>>

Next ==
    \/ CallResolution
    \/ CallCenter
    \/ CallRadiusMeters
    \/ CallBuild
    \/ CallHexagons
    \/ CallGenerateCircleCoordinates
    \/ CallToGeojson

Spec == Init /\ [][Next]_vars

-----------------------------------------------------------------------------
(* What the properties below speak of *)

\* the cell of the region's centre
CenterCell(self) == ToCell(self.center, self.resolution)

\* the point radius_meters due north of the centre
EdgePoint(self) == DestinationPoint(PointOf(self.center), self.radius_meters, 0)

\* the cell of a finite point <<x, y>>
CellOfPoint(point, resolution) ==
    ToCell([lat |-> point[2].v, lng |-> point[1].v], resolution)

\* k: the number of grid steps from the centre cell to the cell of the edge point
ResolvedK(self) ==
    HexDist(CenterCell(self), CellOfPoint(EdgePoint(self), self.resolution))

\* the cells at exactly k grid steps from a cell
RingAt(cell, k) ==
    {c \in {<<cell[1] + dq, cell[2] + dr>> : dq \in -k .. k, dr \in -k .. k} :
        HexDist(cell, c) = k}

SeqRange(seq) == {seq[i] : i \in 1 .. Len(seq)}

\* the grid index failed at some position of the ring hexagons() asked for
RingFailed(self) ==
    /\ IsFinite(EdgePoint(self)[1])
    /\ GridDistance(CenterCell(self), CellOfPoint(EdgePoint(self), self.resolution),
                    self.resolution).ok
    /\ \E i \in 1 .. Len(GridRingFast(CenterCell(self), ResolvedK(self), self.resolution)) :
           GridRingFast(CenterCell(self), ResolvedK(self), self.resolution)[i] = <<>>

\* the grid index cannot compute the distance from the centre cell to the edge cell
DistanceFailed(self) ==
    /\ IsFinite(EdgePoint(self)[1])
    /\ ~GridDistance(CenterCell(self), CellOfPoint(EdgePoint(self), self.resolution),
                     self.resolution).ok

-----------------------------------------------------------------------------
(* The claims *)

\* C1: build() fails with InvalidRadius when the builder's radius is <= 0 and
\* otherwise succeeds with a region holding exactly the builder's center, radius
\* and resolution; hence every constructed region has radius > 0.
C1_BuildRadiusPositive ==
    /\ last.op = "build" =>
         IF FLe0(last.self.radius_meters)
         THEN last.res = Err("InvalidRadius") /\ region = Nothing
         ELSE /\ last.res.ok
              /\ region = last.res.value
              /\ region.center = last.self.center
              /\ region.radius_meters = last.self.radius_meters
              /\ region.resolution = last.self.resolution
    /\ region # Nothing => FGt0(region.radius_meters)

\* C2: when hexagons() succeeds, the returned cells are exactly the cells at
\* grid distance k from the centre cell, each once, k being the grid distance
\* from the centre cell to the cell of the point radius_meters due north.
C2_HexagonsIsRingAtK ==
    (last.op = "hexagons" /\ last.res.ok) =>
        /\ SeqRange(last.res.cells) = RingAt(CenterCell(last.self), ResolvedK(last.self))
        /\ Len(last.res.cells) = Cardinality(SeqRange(last.res.cells))

\* C3: a successful hexagons() returns a non-empty set of cells, and when k = 0
\* exactly the centre cell.
C3_HexagonsNonEmpty ==
    (last.op = "hexagons" /\ last.res.ok) =>
        /\ last.res.cells # <<>>
        /\ ResolvedK(last.self) = 0 => last.res.cells = <<CenterCell(last.self)>>

\* C4: coverage: the cell of every point returned by
\* generate_circle_coordinates() is at grid distance <= k from the centre cell,
\* k as hexagons() resolves it from the northward edge point.
C4_CircleWithinK ==
    (last.op = "generate_circle_coordinates" /\ Hexagons(last.self).ok) =>
        \A i \in 1 .. Len(last.res) :
            HexDist(CenterCell(last.self), CellOfPoint(last.res[i], last.self.resolution))
                <= ResolvedK(last.self)

\* C5: no partial success: when the grid index fails at a position of the ring
\* at distance k, hexagons() returns the error GridRingError and no cells.
C5_RingFailureIsError ==
    (last.op = "hexagons" /\ RingFailed(last.self)) =>
        /\ ~last.res.ok
        /\ last.res.err = "GridRingError"
        /\ last.res.cells = <<>>

\* C6: generate_circle_coordinates() returns exactly 66 pairs: the 65 samples at
\* bearings i*360/64 degrees, i = 0 .. 64 in increasing i, then a copy of the
\* first sample.
C6_CircleHas66Pairs ==
    last.op = "generate_circle_coordinates" =>
        /\ Len(last.res) = 66
        /\ \A i \in 0 .. 64 :
               last.res[i + 1] =
                   DestinationPoint(PointOf(last.self.center), last.self.radius_meters, i)
        /\ last.res[66] = last.res[1]

\* a circle of 66 pairs round a finite radius, its east-most sample off the first
C6_Witness ==
    /\ last.op = "generate_circle_coordinates"
    /\ IsFinite(last.self.radius_meters)
    /\ Len(last.res) = 66
    /\ last.res[17] # last.res[1]

\* C7: boundary closure: the first and the last element returned by
\* generate_circle_coordinates() are coordinate-equal.
C7_CircleClosed ==
    last.op = "generate_circle_coordinates" =>
        CoordEq(last.res[1], last.res[Len(last.res)])

\* C8: resolution(raw) fails with InvalidResolution for every raw in 16 .. 255,
\* and for every raw in 0 .. 15 succeeds, sets the builder's resolution to raw
\* and leaves its center and radius unchanged.
C8_ResolutionValidated ==
    last.op = "resolution" =>
        IF last.arg \in 16 .. 255
        THEN /\ ~last.res.ok
             /\ last.res.err = "InvalidResolution"
             /\ builder = Nothing
        ELSE /\ last.arg \in 0 .. 15
             /\ last.res.ok
             /\ builder = last.res.value
             /\ builder.resolution = last.arg
             /\ builder.center = last.self.center
             /\ builder.radius_meters = last.self.radius_meters

\* resolution(16) has failed with InvalidResolution
C8_Witness ==
    /\ last.op = "resolution"
    /\ last.arg = 16
    /\ last.res.err = "InvalidResolution"

\* C9: when the grid index cannot compute the distance from the centre cell to
\* the edge cell, hexagons() returns GridDistanceError at once: no ring is
\* enumerated, no cells are returned, the distance is asked for once.
C9_DistanceErrorSurfaced ==
    (last.op = "hexagons" /\ DistanceFailed(last.self)) =>
        /\ ~last.res.ok
        /\ last.res.err = "GridDistanceError"
        /\ last.res.cells = <<>>
        /\ "grid_ring_fast" \notin SeqRange(last.res.calls)
        /\ Cardinality({i \in 1 .. Len(last.res.calls) :
                           last.res.calls[i] = "grid_distance"}) = 1

\* hexagons() was called on a region of finite radius for which the grid index
\* cannot compute the distance from the centre cell to the edge cell
C9_Witness ==
    /\ last.op = "hexagons"
    /\ DistanceFailed(last.self)
    /\ FGt0(last.self.radius_meters)

\* C10: when to_geojson() succeeds its features are one "hexagon" feature per
\* cell of hexagons(), in the same order, then exactly one "circle" feature,
\* the last; when hexagons() fails, to_geojson() returns that error and no
\* features.  (generate_circle_coordinates() returns no error.)
C10_GeojsonFeatures ==
    last.op = "to_geojson" =>
        LET hexes == Hexagons(last.self)
            fs == last.res.features
        IN  IF hexes.ok
            THEN /\ last.res.ok
                 /\ Len(fs) = Len(hexes.cells) + 1
                 /\ \A i \in 1 .. Len(hexes.cells) :
                        fs[i].type = "hexagon" /\ fs[i].hex_id = hexes.cells[i]
                 /\ fs[Len(fs)].type = "circle"
                 /\ fs[Len(fs)].coordinates = <<GenerateCircleCoordinates(last.self)>>
                 /\ Cardinality({i \in 1 .. Len(fs) : fs[i].type = "circle"}) = 1
            ELSE /\ ~last.res.ok
                 /\ last.res.err = hexes.err
                 /\ fs = <<>>

\* to_geojson() has returned the 18 hexagons of a ring at distance 3 and a circle
C10_Witness ==
    /\ last.op = "to_geojson"
    /\ last.res.ok
    /\ Len(last.res.features) = 19

====
